---------------------------- MODULE Spec2Model ----------------------------
(***************************************************************************)
(* A model of the service access layer of the invoice dashboard            *)
(* (src/service_manager.py): the TTL/LRU cache of ServiceManager, its      *)
(* cache-aware read and write operations, and the CircuitBreaker with the  *)
(* RateLimitHandler.with_retry wrapper.                                    *)
(*                                                                         *)
(* Cache keys.  A key is the string "<category>_<discriminator>".  It is   *)
(* modelled by its "_"-separated tokens: the tokens of the category name   *)
(* followed by the discriminator, e.g. "invoice_list_10" is                *)
(* <<"invoice", "list", 10>>, so that split("_")[0], startswith and the    *)
(* substring test of _clear_cache are computed on the key as the code      *)
(* computes them on the string.  Discriminators (page sizes, invoice       *)
(* numbers such as INV-2025-000001, md5 prefixes) are tokens that contain  *)
(* no category word.                                                       *)
(*                                                                         *)
(* Time is the wall clock in seconds (datetime.now()).  The per-key and    *)
(* global hit/miss/eviction counters only ever grow and are read by no     *)
(* branch of the code; they are left out.                                  *)
(*                                                                         *)
(* The Cosmos DB container is the set of the invoice numbers it holds; a   *)
(* value read from it or from the search index is modelled by what the     *)
(* callers test of it: None, the empty list, or a value that is true.      *)
(***************************************************************************)
EXTENDS Integers, Sequences, FiniteSets, TLC

VARIABLES
    now,                \* datetime.now(), seconds since construction
    cache,              \* self.cache: a dict in insertion order, <<[key, data], ...>>
    cache_timestamps,   \* self.cache_timestamps: key -> timestamp
    timer,              \* the time the armed cleanup threading.Timer fires
    ret,                \* what the last operation returned to its caller
    hist,               \* history: key -> [at, read] of its last _set_cache
    obs,                \* history: what was known of the key the last read asked for
    breaker,            \* the CircuitBreaker's fields
    bhist,              \* history of the calls made on the breaker
    wrapper,            \* the with_retry wrapper's loop: where it is, its attempt
    whist,              \* history of the guarded call in progress or just ended
    store,              \* the invoice numbers of the documents in the Cosmos DB container
    services_available, \* self.services_available, set at construction
    due,                \* history: the keys not read since the last successful save
    redis_client,       \* InvoiceQueue: whether self.redis_client is set (Redis backend)
    job_store,          \* the job records: the hashes job:<id> or self._memory_jobs
    invoice_queue,      \* the zset "invoice_queue" or self._memory_queue
    tasks,              \* the worker pool: where the _process_job of each job is
    jhist,              \* history of each job: failures, runs, whether cancelled
    singleton,          \* ServiceManager._instance, _initialized, _service_manager, locks
    threads,            \* the threads obtaining the manager: where each one is
    inits,              \* history: how many times the initialization has run
    limiter,            \* the AdaptiveRateLimiter's fields
    lhist,              \* history: the ceiling before each success of the current run
    calls,              \* the threads calling through the wrapper: where each one is
    admitted,           \* history: the calls can_execute() admitted in this half-open trial
    sweep,              \* the cleanup timer thread: where it is, the dict size its iterator saw
    issued,             \* history: the invoice numbers _generate_invoice_number has returned
    search_cached,      \* the length of the list cached under the year query's search_results key
    reads,              \* the reading threads: where each one is, what it fetched
    seen,               \* history: key -> the documents in the store when the cached value was fetched
    cancelling,         \* the thread in cancel_job on the in-memory backend: where it is, its new list
    clients,            \* WebSocketManager.clients, the open connections
    client_subscriptions, \* WebSocketManager.client_subscriptions, the update types of each
    subhist             \* per connection: whether it has subscribed, and the types it unsubscribed from and has not subscribed to since

cacheVars == <<now, cache, cache_timestamps, timer, hist, obs>>
breakerVars == <<breaker, bhist, wrapper, whist>>
svcVars == <<store, services_available, due>>
queueVars == <<redis_client, job_store, invoice_queue, tasks, jhist>>
singletonVars == <<singleton, threads, inits>>
limiterVars == <<limiter, lhist>>
trialVars == <<calls, admitted>>
sweepVars == <<sweep>>
numberVars == <<issued, search_cached>>
raceVars == <<reads, seen>>
cancelVars == <<cancelling>>
wsVars == <<clients, client_subscriptions, subhist>>
extVars == <<trialVars, sweepVars, numberVars, raceVars, cancelVars, wsVars>>
auxVars == <<queueVars, singletonVars, limiterVars, extVars>>
vars == <<now, cache, cache_timestamps, timer, ret, hist, obs,
          breaker, bhist, wrapper, whist, store, services_available, due,
          redis_client, job_store, invoice_queue, tasks, jhist,
          singleton, threads, inits, limiter, lhist,
          calls, admitted,
          sweep,
          issued, search_cached,
          reads, seen,
          cancelling,
          clients, client_subscriptions, subhist>>

---------------------------------------------------------------------------
(* Bounds of the model *)

\* number of distinct page sizes (invoice_list keys) offered to _set_cache
NListKeys == 21
\* number of distinct statistics keys offered to _set_cache
NStatKeys == 2
\* the clock advances in steps of TickStep seconds, up to MaxTime
TickStep == 120
MaxTime == 360
\* no failure is recorded once failure_count has reached MaxFailureCount
MaxFailureCount == 15
\* between calls on the breaker the clock advances in steps of IdleStep seconds
IdleStep == 20
\* number of jobs enqueued
NJobs == 2
\* failures of one job's processing that are followed
MaxJobFailures == 5
\* number of threads that ask for the service manager
NThreads == 2
\* rate-limit events in a row that are followed
MaxRateLimits == 6
\* number of threads calling through the with_retry wrapper
NCallers == 2
\* with several callers, no failure is recorded once failure_count has
\* reached MaxTrialFailures, and MaxTrialRateLimits rate-limit events in a
\* row are followed
MaxTrialFailures == 6
MaxTrialRateLimits == 2
\* number of distinct invoice_list and invoice_detail keys offered to
\* _set_cache together
NEvictListKeys == 50
NEvictDetailKeys == 1
\* number of invoice numbers generated
MaxGenerations == 3
\* number of threads reading through the cache
NReaders == 2

---------------------------------------------------------------------------
(* Keys *)

Key(cat, disc) == [cat |-> cat, disc |-> disc]

\* cache_key.split("_")
Tokens(k) == k.cat \o <<k.disc>>

\* cache_key.split("_")[0]
CacheType(k) == Head(Tokens(k))

\* key.startswith(prefix), prefix given by its tokens
StartsWith(k, prefix) ==
    /\ Len(prefix) <= Len(Tokens(k))
    /\ SubSeq(Tokens(k), 1, Len(prefix)) = prefix

\* pattern in key, pattern given by its tokens
Contains(k, pattern) ==
    \E i \in 1..(Len(Tokens(k)) - Len(pattern) + 1) :
        SubSeq(Tokens(k), i, i + Len(pattern) - 1) = pattern

CatStatistics == <<"statistics">>
CatInvoiceList == <<"invoice", "list">>
CatSearchResults == <<"search", "results">>
CatInvoiceDetail == <<"invoice", "detail">>
CatClientData == <<"client", "data">>
CatAgentConfig == <<"agent", "config">>
CatServiceStatus == <<"service", "status">>

Categories ==
    {CatStatistics, CatInvoiceList, CatSearchResults, CatInvoiceDetail,
     CatClientData, CatAgentConfig, CatServiceStatus}

---------------------------------------------------------------------------
(* Configuration: _initialize_cache *)

cache_ttl ==
    (CatStatistics :> 300) @@ (CatInvoiceList :> 180) @@
    (CatSearchResults :> 120) @@ (CatInvoiceDetail :> 600) @@
    (CatClientData :> 900) @@ (CatAgentConfig :> 3600) @@
    (CatServiceStatus :> 60)

cache_max_size ==
    (CatStatistics :> 10) @@ (CatInvoiceList :> 20) @@
    (CatSearchResults :> 50) @@ (CatInvoiceDetail :> 100) @@
    (CatClientData :> 200) @@ (CatAgentConfig :> 5) @@
    (CatServiceStatus :> 5)

\* self.cache_ttl.get(cache_type, 300)
DefaultTTL == 300
\* self.cache_max_size.get(cache_type, 50)
DefaultMaxSize == 50

\* dict.get(cache_type, default): cache_type is one token, the dict's keys are
\* the category names
DictGet(dict, cache_type, default) ==
    IF <<cache_type>> \in DOMAIN dict THEN dict[<<cache_type>>] ELSE default

TTLOf(k) == DictGet(cache_ttl, CacheType(k), DefaultTTL)
MaxSizeOf(k) == DictGet(cache_max_size, CacheType(k), DefaultMaxSize)

---------------------------------------------------------------------------
(* The dict self.cache *)

CachedKeys(c) == {c[i].key : i \in DOMAIN c}

\* position of key k in the dict's iteration order
PosOf(c, k) == CHOOSE i \in DOMAIN c : c[i].key = k

\* self.cache.get(cache_key)
CacheData(c, k) == IF k \in CachedKeys(c) THEN c[PosOf(c, k)].data ELSE "None"

RECURSIVE DictWithout(_, _)
\* the dict without the keys of `gone`, order kept
DictWithout(c, gone) ==
    IF c = <<>> THEN <<>>
    ELSE IF Head(c).key \in gone THEN DictWithout(Tail(c), gone)
         ELSE <<Head(c)>> \o DictWithout(Tail(c), gone)

\* self.cache[cache_key] = data: in place for a key the dict holds, appended
\* otherwise
DictPut(c, k, data) ==
    IF k \in CachedKeys(c)
    THEN [c EXCEPT ![PosOf(c, k)] = [key |-> k, data |-> data]]
    ELSE Append(c, [key |-> k, data |-> data])

\* the timestamps without the keys of `gone`
TsWithout(ts, gone) == [k \in (DOMAIN ts) \ gone |-> ts[k]]

TsPut(ts, k, t) == [j \in (DOMAIN ts) \cup {k} |-> IF j = k THEN t ELSE ts[j]]

---------------------------------------------------------------------------
(* _evict_lru_items, _set_cache, _is_cache_valid, _get_from_cache *)

\* the keys _evict_lru_items(cache_type, count) removes: the first `count` of
\* the keys that start with cache_type, sorted by timestamp (list.sort is
\* stable: ties keep the dict's order)
EvictLRUItems(c, ts, cache_type, count) ==
    LET type_items == {k \in CachedKeys(c) : StartsWith(k, <<cache_type>>)}
        Before(j, k) ==
            \/ ts[j] < ts[k]
            \/ ts[j] = ts[k] /\ PosOf(c, j) < PosOf(c, k)
        Rank(k) == Cardinality({j \in type_items : Before(j, k)})
    IN  IF count = 1
        THEN {k \in type_items : \A j \in type_items : ~Before(j, k)}
        ELSE {k \in type_items : Rank(k) < count}

\* the keys _set_cache(cache_key, ..) evicts before it stores
SetCacheEvicted(c, ts, k) ==
    LET cache_type == CacheType(k)
        current_items == {j \in CachedKeys(c) : StartsWith(j, <<cache_type>>)}
        n == Cardinality(current_items)
    IN  IF n >= MaxSizeOf(k)
        THEN EvictLRUItems(c, ts, cache_type, n - MaxSizeOf(k) + 1)
        ELSE {}

\* the dict after _set_cache(cache_key, data)
SetCacheDict(c, ts, k, data) ==
    DictPut(DictWithout(c, SetCacheEvicted(c, ts, k)), k, data)

\* the timestamps after _set_cache(cache_key, data) at time t
SetCacheTs(c, ts, k, t) ==
    TsPut(TsWithout(ts, SetCacheEvicted(c, ts, k)), k, t)

\* _is_cache_valid(cache_key) at time t
IsCacheValid(ts, k, t) ==
    /\ k \in DOMAIN ts
    /\ t - ts[k] < TTLOf(k)

---------------------------------------------------------------------------
(* History: the time of each key's last write, and whether it was read since *)

HistPut(h, k, t) ==
    [j \in (DOMAIN h) \cup {k} |-> IF j = k THEN [at |-> t, read |-> FALSE] ELSE h[j]]

HistWithout(h, gone) == [k \in (DOMAIN h) \ gone |-> h[k]]

HistRead(h, k) ==
    [j \in DOMAIN h |-> IF j = k THEN [h[j] EXCEPT !.read = TRUE] ELSE h[j]]

NoRet == [op |-> "none"]
NoObs == [known |-> FALSE]

\* what the history holds of key k at time t, before it is read
Observe(h, k, t) ==
    IF k \in DOMAIN h
    THEN [known |-> TRUE, unread |-> ~h[k].read, age |-> t - h[k].at]
    ELSE NoObs

\* threading.Timer(300, cleanup_expired_cache)
CleanupInterval == 300

---------------------------------------------------------------------------
(* CircuitBreaker *)

\* CircuitBreaker.__init__ defaults
failure_threshold == 5
recovery_timeout == 60
half_open_max_calls == 3

\* self.last_failure_time = None
Never == -1

\* breaker.last_failure holds datetime.now() - last_failure_time in seconds
\* (Never while last_failure_time is None); it is only ever compared with
\* recovery_timeout and stops growing one second above it
NewBreaker ==
    [state |-> "CLOSED", failure_count |-> 0, half_open_calls |-> 0,
     last_failure |-> Never]

\* _should_attempt_reset() of a breaker that waits half the recovery timeout
ShouldAttemptResetEarly(b) ==
    IF b.last_failure = Never THEN TRUE
    ELSE b.last_failure > recovery_timeout \div 2

\* _should_attempt_reset()
ShouldAttemptReset(b) ==
    IF b.last_failure = Never THEN TRUE ELSE b.last_failure > recovery_timeout

\* can_execute() of a breaker that lets a call through whenever it is OPEN
CanExecuteValueOpenAdmits(b) ==
    CASE b.state = "CLOSED" -> TRUE
      [] b.state = "OPEN" -> TRUE
      [] b.state = "HALF_OPEN" -> b.half_open_calls < half_open_max_calls
      [] OTHER -> FALSE

\* the value can_execute() returns
CanExecuteValue(b) ==
    CASE b.state = "CLOSED" -> TRUE
      [] b.state = "OPEN" -> ShouldAttemptReset(b)
      [] b.state = "HALF_OPEN" -> b.half_open_calls < half_open_max_calls
      [] OTHER -> FALSE

\* the breaker after can_execute()
AfterCanExecute(b) ==
    IF b.state = "OPEN" /\ ShouldAttemptReset(b)
    THEN [b EXCEPT !.state = "HALF_OPEN", !.half_open_calls = 0]
    ELSE b

\* record_success() of a breaker that closes one success too late
AfterRecordSuccessLate(b) ==
    CASE b.state = "HALF_OPEN" ->
            IF b.half_open_calls + 1 > half_open_max_calls
            THEN [b EXCEPT !.half_open_calls = b.half_open_calls + 1,
                           !.state = "CLOSED", !.failure_count = 0]
            ELSE [b EXCEPT !.half_open_calls = b.half_open_calls + 1]
      [] b.state = "CLOSED" ->
            [b EXCEPT !.failure_count =
                IF b.failure_count - 1 > 0 THEN b.failure_count - 1 ELSE 0]
      [] OTHER -> b

\* the breaker after record_success()
AfterRecordSuccess(b) ==
    CASE b.state = "HALF_OPEN" ->
            IF b.half_open_calls + 1 >= half_open_max_calls
            THEN [b EXCEPT !.half_open_calls = b.half_open_calls + 1,
                           !.state = "CLOSED", !.failure_count = 0]
            ELSE [b EXCEPT !.half_open_calls = b.half_open_calls + 1]
      [] b.state = "CLOSED" ->
            [b EXCEPT !.failure_count =
                IF b.failure_count - 1 > 0 THEN b.failure_count - 1 ELSE 0]
      [] OTHER -> b

\* record_failure() of a breaker that opens one failure too late
AfterRecordFailureLate(b) ==
    [b EXCEPT !.failure_count = b.failure_count + 1,
              !.last_failure = 0,
              !.state = IF b.failure_count + 1 > failure_threshold
                        THEN "OPEN" ELSE b.state]

\* the breaker after record_failure()
AfterRecordFailure(b) ==
    [b EXCEPT !.failure_count = b.failure_count + 1,
              !.last_failure = 0,
              !.state = IF b.failure_count + 1 >= failure_threshold
                        THEN "OPEN" ELSE b.state]

\* a clock reading d seconds later
Later(age, d) ==
    IF age = Never THEN Never
    ELSE IF age + d > recovery_timeout THEN recovery_timeout + 1 ELSE age + d

\* the breaker d seconds later
Elapse(b, d) == [b EXCEPT !.last_failure = Later(b.last_failure, d)]

\* History of the breaker: failures counts the record_failure calls made in
\* a row (up to failure_threshold); trial counts the record_success calls made
\* since the breaker went HALF_OPEN with no record_failure since (Never
\* outside such a run, up to half_open_max_calls); op_failure is the clock of
\* the wrapped operation's last failure; trip is the clock of the last
\* record_failure made while HALF_OPEN (Never once the breaker has gone
\* HALF_OPEN again)
NewBHist ==
    [failures |-> 0, trial |-> Never, op_failure |-> Never, trip |-> Never]

Min(a, b) == IF a < b THEN a ELSE b

\* History of a guarded call: whether the breaker was OPEN with its recovery
\* timeout not elapsed when the call was made (open), whether it was OPEN with
\* more than recovery_timeout elapsed since the operation last failed (late),
\* what became of the first attempt ("pending", "admitted", "rejected") and
\* whether the wrapped operation was invoked in any attempt
NewWHist ==
    [open |-> FALSE, late |-> FALSE, first |-> "pending", invoked |-> FALSE,
     notfound |-> FALSE]

\* the history after can_execute() has taken the breaker from b to b2
SeenCanExecute(h, b, b2) ==
    IF b.state = "OPEN" /\ b2.state = "HALF_OPEN"
    THEN [h EXCEPT !.trial = 0, !.trip = Never] ELSE h

\* the history after record_success()
SeenSuccess(h) ==
    [h EXCEPT !.failures = 0,
              !.trial = IF h.trial = Never THEN Never
                        ELSE Min(h.trial + 1, half_open_max_calls)]

\* the history after record_failure() on breaker b
SeenFailure(h, b) ==
    [h EXCEPT !.failures = Min(h.failures + 1, failure_threshold),
              !.trial = Never,
              !.trip = IF b.state = "HALF_OPEN" THEN 0 ELSE h.trip]

InitBreaker ==
    /\ breaker = NewBreaker
    /\ bhist = NewBHist
    /\ wrapper = [pc |-> "idle", attempt |-> 0]
    /\ whist = NewWHist

\* breaker.can_execute()
CanExecute ==
    /\ breaker' = AfterCanExecute(breaker)
    /\ ret' = [op |-> "can_execute", value |-> CanExecuteValue(breaker)]
    /\ bhist' = SeenCanExecute(bhist, breaker, AfterCanExecute(breaker))
    /\ UNCHANGED <<wrapper, whist>>
    /\ UNCHANGED cacheVars
    /\ UNCHANGED auxVars
    /\ UNCHANGED svcVars

\* breaker.record_success()
RecordSuccess ==
    /\ breaker' = AfterRecordSuccess(breaker)
    /\ ret' = [op |-> "record_success"]
    /\ bhist' = SeenSuccess(bhist)
    /\ UNCHANGED <<wrapper, whist>>
    /\ UNCHANGED cacheVars
    /\ UNCHANGED auxVars
    /\ UNCHANGED svcVars

\* breaker.record_failure()
RecordFailure ==
    /\ breaker.failure_count < MaxFailureCount
    /\ breaker' = AfterRecordFailure(breaker)
    /\ ret' = [op |-> "record_failure"]
    /\ bhist' = SeenFailure(bhist, breaker)
    /\ UNCHANGED <<wrapper, whist>>
    /\ UNCHANGED cacheVars
    /\ UNCHANGED auxVars
    /\ UNCHANGED svcVars

\* the history d seconds later
ElapseHist(h, d) ==
    [h EXCEPT !.op_failure = Later(h.op_failure, d), !.trip = Later(h.trip, d)]

\* time passes between two calls on the breaker
BreakerTick ==
    /\ wrapper.pc = "idle"
    /\ breaker.last_failure # Never
    /\ breaker.last_failure <= recovery_timeout
    /\ breaker' = Elapse(breaker, IdleStep)
    /\ bhist' = ElapseHist(bhist, IdleStep)
    /\ UNCHANGED <<ret, wrapper, whist>>
    /\ UNCHANGED cacheVars
    /\ UNCHANGED auxVars
    /\ UNCHANGED svcVars

---------------------------------------------------------------------------
(* AdaptiveRateLimiter: the fields record_success and record_rate_limit
   adapt.  request_count, window_start and last_request_time are read by
   can_proceed and get_delay only, which write none of the fields below. *)

\* the floor and the ceiling of requests_per_minute, the successes in a row
\* that raise it, the raise, and the reduction's step and cap
MinRate == 10
MaxRate == 120
SuccessesToRaise == 10
RateRaise == 5
ReductionStep == 5
MaxReduction == 20

Max(a, b) == IF a > b THEN a ELSE b

\* a record_success that raises the ceiling only after one success more
AfterLimiterSuccessLate(l) ==
    IF l.consecutive_successes + 1 > SuccessesToRaise
    THEN [l EXCEPT !.requests_per_minute = Min(MaxRate, @ + RateRaise),
                   !.consecutive_successes = 0,
                   !.consecutive_rate_limits = 0]
    ELSE [l EXCEPT !.consecutive_successes = @ + 1,
                   !.consecutive_rate_limits = 0]

\* the limiter after record_success()
AfterLimiterSuccess(l) ==
    IF l.consecutive_successes + 1 >= SuccessesToRaise
    THEN [l EXCEPT !.requests_per_minute = Min(MaxRate, @ + RateRaise),
                   !.consecutive_successes = 0,
                   !.consecutive_rate_limits = 0]
    ELSE [l EXCEPT !.consecutive_successes = @ + 1,
                   !.consecutive_rate_limits = 0]

\* a record_rate_limit with no floor
AfterRateLimitNoFloor(l) ==
    [l EXCEPT !.consecutive_rate_limits = @ + 1,
              !.consecutive_successes = 0,
              !.requests_per_minute =
                  @ - Min(MaxReduction, (l.consecutive_rate_limits + 1) * ReductionStep)]

\* the limiter after record_rate_limit()
AfterRateLimit(l) ==
    [l EXCEPT !.consecutive_rate_limits = @ + 1,
              !.consecutive_successes = 0,
              !.requests_per_minute =
                  Max(MinRate, @ - Min(MaxReduction,
                                       (l.consecutive_rate_limits + 1) * ReductionStep))]

\* the history with one more success recorded at ceiling r: the ceilings
\* before each of the last SuccessesToRaise successes made in a row
Succeeded(h, r) ==
    IF Len(h) < SuccessesToRaise THEN Append(h, r) ELSE Append(Tail(h), r)

\* what the actions of the limiter leave alone
LimiterFrame ==
    UNCHANGED <<cacheVars, breakerVars, svcVars, queueVars, singletonVars, extVars>>

\* rate_limiter.record_success()
LimiterRecordSuccess ==
    /\ limiter' = AfterLimiterSuccess(limiter)
    /\ lhist' = Succeeded(lhist, limiter.requests_per_minute)
    /\ ret' = [op |-> "limiter_record_success",
               before |-> limiter.requests_per_minute]
    /\ LimiterFrame

\* rate_limiter.record_rate_limit()
LimiterRecordRateLimit ==
    /\ limiter.consecutive_rate_limits < MaxRateLimits
    /\ limiter' = AfterRateLimit(limiter)
    /\ lhist' = <<>>
    /\ ret' = [op |-> "record_rate_limit",
               before |-> limiter.requests_per_minute]
    /\ LimiterFrame

---------------------------------------------------------------------------
(* RateLimitHandler.with_retry, as enhanced_ai_generate applies it *)

\* with_retry(max_retries=5, base_delay=2.0, max_delay=120.0)
max_retries == 5
base_delay == 2
max_delay == 120

\* An error message is the set of the phrases it contains
RateLimitWords == {"rate limit", "too many requests", "quota exceeded", "throttled"}
TransientWords == {"timeout", "connection", "network", "temporary", "service unavailable"}
PermanentWords == {"authentication", "authorization", "forbidden", "not found", "invalid"}

\* _classify_error(error)
ClassifyError(msg) ==
    IF msg \cap RateLimitWords # {} THEN "rate_limit"
    ELSE IF msg \cap TransientWords # {} THEN "transient"
    ELSE IF msg \cap PermanentWords # {} THEN "permanent"
    ELSE "unknown"

\* "Circuit breaker is open - service temporarily unavailable"
BreakerOpenError == {"circuit breaker is open", "service temporarily unavailable"}

\* the messages the wrapped operation raises
OpErrors ==
    {{"rate limit"}, {"timeout"}, {"not found"}, {"not found", "connection"},
     {"ai processing failed"}}

RECURSIVE Pow(_, _)
Pow(x, n) == IF n = 0 THEN 1 ELSE x * Pow(x, n - 1)

\* x / y rounded up to a whole second of the clock
CeilDiv(x, y) == (x + y - 1) \div y

\* the seconds slept after a failed attempt: the backoff of the error's
\* class, with jitter random.uniform(0, 1) for a rate limit
BackoffDelay(class, attempt, jitter) ==
    CASE class = "rate_limit" ->
            Min(base_delay * Pow(2, attempt) + jitter, max_delay)
      [] class = "transient" ->
            Min(base_delay * (attempt + 1), max_delay)
      [] OTHER ->
            Min(CeilDiv(base_delay * Pow(3, attempt), Pow(2, attempt)), max_delay)

\* the wrapper after an attempt that is to be followed by another one, if any
\* is left: "for attempt in range(max_retries)"
NextAttempt(w) ==
    IF w.attempt + 1 < max_retries
    THEN [pc |-> "try", attempt |-> w.attempt + 1]
    ELSE [pc |-> "idle", attempt |-> 0]

\* a call of the wrapped function begins
GuardedCall ==
    /\ wrapper.pc = "idle"
    /\ breaker.failure_count + max_retries <= MaxFailureCount
    /\ wrapper' = [pc |-> "try", attempt |-> 0]
    /\ whist' = [open |-> breaker.state = "OPEN" /\ ~ShouldAttemptReset(breaker),
                 late |-> /\ breaker.state = "OPEN"
                          /\ bhist.op_failure > recovery_timeout,
                 first |-> "pending", invoked |-> FALSE, notfound |-> FALSE]
    /\ ret' = NoRet
    /\ UNCHANGED <<breaker, bhist>>
    /\ UNCHANGED cacheVars
    /\ UNCHANGED auxVars
    /\ UNCHANGED svcVars

\* the history after an attempt
Attempted(h, outcome, invoked) ==
    [h EXCEPT !.first = IF h.first = "pending" THEN outcome ELSE h.first,
              !.invoked = h.invoked \/ invoked]

\* an attempt that can_execute() refuses: the exception raised in the try block
\* is handled like a failure of the operation
AttemptRejected ==
    /\ wrapper.pc = "try"
    /\ ~CanExecuteValue(breaker)
    /\ LET d == BackoffDelay(ClassifyError(BreakerOpenError), wrapper.attempt, 0)
       IN  /\ breaker' = Elapse(AfterRecordFailure(AfterCanExecute(breaker)), d)
           /\ bhist' = ElapseHist(SeenFailure(bhist, AfterCanExecute(breaker)), d)
    /\ wrapper' = NextAttempt(wrapper)
    /\ whist' = Attempted(whist, "rejected", FALSE)
    /\ ret' = IF wrapper'.pc = "idle"
              THEN [op |-> "guarded_call", raised |-> BreakerOpenError]
              ELSE NoRet
    /\ UNCHANGED cacheVars
    /\ UNCHANGED auxVars
    /\ UNCHANGED svcVars

\* an attempt in which the operation is invoked and returns
AttemptSucceeds ==
    /\ wrapper.pc = "try"
    /\ CanExecuteValue(breaker)
    /\ breaker' = AfterRecordSuccess(AfterCanExecute(breaker))
    /\ wrapper' = [pc |-> "idle", attempt |-> 0]
    /\ whist' = Attempted(whist, "admitted", TRUE)
    /\ ret' = [op |-> "guarded_call", raised |-> {}]
    /\ bhist' = SeenSuccess(SeenCanExecute(bhist, breaker, AfterCanExecute(breaker)))
    /\ limiter' = AfterLimiterSuccess(limiter)
    /\ lhist' = Succeeded(lhist, limiter.requests_per_minute)
    /\ UNCHANGED cacheVars
    /\ UNCHANGED <<queueVars, singletonVars, extVars>>
    /\ UNCHANGED svcVars

\* an attempt in which the operation is invoked and raises msg
AttemptFails(msg, jitter) ==
    /\ wrapper.pc = "try"
    /\ CanExecuteValue(breaker)
    /\ LET class == ClassifyError(msg)
           d == IF class = "permanent" THEN 0
                ELSE BackoffDelay(class, wrapper.attempt, jitter)
       IN  /\ breaker' = Elapse(AfterRecordFailure(AfterCanExecute(breaker)), d)
           /\ bhist' = ElapseHist([SeenFailure(bhist, AfterCanExecute(breaker))
                                       EXCEPT !.op_failure = 0], d)
           /\ wrapper' = IF class = "permanent"
                         THEN [pc |-> "idle", attempt |-> 0]
                         ELSE NextAttempt(wrapper)
           /\ IF class = "rate_limit"
              THEN /\ limiter.consecutive_rate_limits < MaxRateLimits
                   /\ limiter' = AfterRateLimit(limiter)
                   /\ lhist' = <<>>
              ELSE UNCHANGED limiterVars
    /\ whist' = [Attempted(whist, "admitted", TRUE)
                    EXCEPT !.notfound = @ \/ "not found" \in msg]
    /\ ret' = IF wrapper'.pc = "idle"
              THEN [op |-> "guarded_call", raised |-> msg]
              ELSE NoRet
    /\ UNCHANGED cacheVars
    /\ UNCHANGED <<queueVars, singletonVars, extVars>>
    /\ UNCHANGED svcVars

AttemptFailsAny ==
    \E msg \in OpErrors : \E jitter \in {0, 1} :
        /\ (jitter = 1 => ClassifyError(msg) = "rate_limit")
        /\ AttemptFails(msg, jitter)

---------------------------------------------------------------------------
(* Actions on the cache alone *)

\* service_manager._set_cache(k, data)
SetCache(k, data) ==
    /\ cache' = SetCacheDict(cache, cache_timestamps, k, data)
    /\ cache_timestamps' = SetCacheTs(cache, cache_timestamps, k, now)
    /\ hist' = HistPut(HistWithout(hist, SetCacheEvicted(cache, cache_timestamps, k)), k, now)
    /\ ret' = [op |-> "set"]
    /\ obs' = NoObs
    /\ UNCHANGED <<now, timer>>
    /\ UNCHANGED breakerVars
    /\ UNCHANGED auxVars
    /\ UNCHANGED svcVars

\* the value _get_from_cache(k) returns
GetFromCacheValue(c, ts, k, t) ==
    IF IsCacheValid(ts, k, t) THEN CacheData(c, k) ELSE "None"

\* the timestamps after _get_from_cache(k): a hit is stamped with the time
\* of the read
GetFromCacheTs(ts, k, t) ==
    IF IsCacheValid(ts, k, t) THEN TsPut(ts, k, t) ELSE ts

\* service_manager._get_from_cache(k)
GetFromCache(k) ==
    /\ ret' = [op |-> "get", key |-> k,
                data |-> GetFromCacheValue(cache, cache_timestamps, k, now)]
    /\ cache_timestamps' = GetFromCacheTs(cache_timestamps, k, now)
    /\ obs' = Observe(hist, k, now)
    /\ hist' = HistRead(hist, k)
    /\ UNCHANGED <<now, cache, timer>>
    /\ UNCHANGED breakerVars
    /\ UNCHANGED auxVars
    /\ UNCHANGED svcVars

\* the keys cleanup_expired_cache removes at time t
ExpiredKeys(ts, t) == {k \in DOMAIN ts : t - ts[k] > TTLOf(k)}

\* the timer thread runs cleanup_expired_cache and arms the next timer
CleanupExpiredCache ==
    /\ now >= timer
    /\ cache' = DictWithout(cache, ExpiredKeys(cache_timestamps, now))
    /\ cache_timestamps' = TsWithout(cache_timestamps, ExpiredKeys(cache_timestamps, now))
    /\ timer' = now + CleanupInterval
    /\ UNCHANGED <<now, ret, hist, obs>>
    /\ UNCHANGED breakerVars
    /\ UNCHANGED auxVars
    /\ UNCHANGED svcVars

\* time passes
Tick ==
    /\ now + TickStep <= MaxTime
    /\ now' = now + TickStep
    /\ UNCHANGED <<cache, cache_timestamps, timer, ret, hist, obs>>
    /\ UNCHANGED breakerVars
    /\ UNCHANGED auxVars
    /\ UNCHANGED svcVars

---------------------------------------------------------------------------
(* The document store and the cache-aware operations of ServiceManager *)

\* the invoice numbers, page sizes, query hashes and client keys in use
InvoiceNumbers == {"INV-1", "INV-2"}
PageSizes == {"10", "50"}
QueryHashes == {"q1"}
ClientKeys == {"acme"}

StatisticsKey == Key(CatStatistics, "main")
InvoiceListKey(limit) == Key(CatInvoiceList, limit)
InvoiceDetailKey(invoice_number) == Key(CatInvoiceDetail, invoice_number)
SearchResultsKey(query_hash) == Key(CatSearchResults, query_hash)
ClientDataKey(client_key) == Key(CatClientData, client_key)

\* the keys whose next read is to follow a successful save
DueKeys == {StatisticsKey} \cup {InvoiceListKey(l) : l \in PageSizes}

\* "if cached:" -- None and the empty list are false
Truthy(data) == data \notin {"None", "empty"}

\* cosmos_service.get_invoice_statistics(): the statistics, or the dict with
\* an "error" entry it returns when the query raises
FetchedStatistics == {"stats", "stats_error"}

\* cosmos_service.list_invoices(limit): the page, [] when the container is
\* empty or the query raises
FetchedList(s) == IF s = {} THEN {"empty"} ELSE {"items", "empty"}

\* cosmos_service.get_invoice(n): the document, None when there is none or
\* the read raises
FetchedInvoice(s, n) == IF n \in s THEN {"invoice", "None"} ELSE {"None"}

\* what search_invoices gathers: the search service's results when it is
\* available, the Cosmos DB query's when those are empty, [] otherwise
FetchedSearch(avail, s) ==
    IF avail.search \/ (avail.cosmos /\ s # {})
    THEN {"items", "empty"} ELSE {"empty"}

\* a degraded get_statistics whose dict has no "error" entry
DegradedResultNoError(op) ==
    CASE op = "get_statistics" -> "stats"
      [] op = "list_invoices" -> "empty"
      [] op = "get_invoice" -> "None"

\* what a read returns when Cosmos DB is not available: the dict with
\* total_invoices 0 and an "error" entry, [], None
DegradedResult(op) ==
    CASE op = "get_statistics" -> "stats_unavailable"
      [] op = "list_invoices" -> "empty"
      [] op = "get_invoice" -> "None"

\* whether the call before this one, whose result is r, was the same read of
\* the same key, made without force_refresh
Again(r, op, k) == r.op = op /\ r.key = k /\ ~r.force_refresh

\* the shape get_statistics, list_invoices and get_invoice share: the cached
\* value if it is there and true, the fallback if Cosmos DB is unavailable,
\* else a fetch that is stored in the cache.  The result records where the
\* value came from, whether the key was due and whether the call repeats the
\* one before it
CachedRead(op, k, force_refresh, fetched, fallback) ==
    LET cached == IF force_refresh THEN "None"
                  ELSE GetFromCacheValue(cache, cache_timestamps, k, now)
        ts == IF force_refresh THEN cache_timestamps
              ELSE GetFromCacheTs(cache_timestamps, k, now)
    IN  /\ IF Truthy(cached)
           THEN /\ ret' = [op |-> op, source |-> "cache", data |-> cached,
                           due |-> k \in due, force_refresh |-> force_refresh,
                           key |-> k, again |-> Again(ret, op, k)]
                /\ cache' = cache
                /\ cache_timestamps' = ts
           ELSE IF ~services_available.cosmos
           THEN /\ ret' = [op |-> op, source |-> "degraded", data |-> fallback,
                           due |-> k \in due, force_refresh |-> force_refresh,
                           key |-> k, again |-> Again(ret, op, k)]
                /\ cache' = cache
                /\ cache_timestamps' = ts
           ELSE \E data \in fetched :
                /\ ret' = [op |-> op, source |-> "fetch", data |-> data,
                           due |-> k \in due, force_refresh |-> force_refresh,
                           key |-> k, again |-> Again(ret, op, k)]
                /\ cache' = SetCacheDict(cache, ts, k, data)
                /\ cache_timestamps' = SetCacheTs(cache, ts, k, now)
        /\ due' = due \ {k}
        /\ UNCHANGED <<now, timer, hist, obs, store, services_available>>
        /\ UNCHANGED breakerVars
        /\ UNCHANGED auxVars

\* get_statistics(force_refresh)
GetStatistics ==
    \E force_refresh \in BOOLEAN :
        CachedRead("get_statistics", StatisticsKey, force_refresh,
                   FetchedStatistics, DegradedResult("get_statistics"))

\* list_invoices(limit, force_refresh)
ListInvoices(limit) ==
    \E force_refresh \in BOOLEAN :
        CachedRead("list_invoices", InvoiceListKey(limit), force_refresh,
                   FetchedList(store), DegradedResult("list_invoices"))

\* get_invoice(invoice_number, force_refresh)
GetInvoice(invoice_number) ==
    \E force_refresh \in BOOLEAN :
        CachedRead("get_invoice", InvoiceDetailKey(invoice_number), force_refresh,
                   FetchedInvoice(store, invoice_number), DegradedResult("get_invoice"))

\* search_invoices(query, force_refresh), query given by its md5 prefix
SearchInvoices(query_hash) ==
    \E force_refresh \in BOOLEAN :
        LET k == SearchResultsKey(query_hash)
            cached == IF force_refresh THEN "None"
                      ELSE GetFromCacheValue(cache, cache_timestamps, k, now)
            ts == IF force_refresh THEN cache_timestamps
                  ELSE GetFromCacheTs(cache_timestamps, k, now)
        IN  /\ IF Truthy(cached)
               THEN /\ ret' = [op |-> "search_invoices", source |-> "cache",
                               data |-> cached, due |-> FALSE,
                               force_refresh |-> force_refresh, key |-> k,
                               again |-> Again(ret, "search_invoices", k)]
                    /\ cache' = cache
                    /\ cache_timestamps' = ts
               ELSE \E data \in FetchedSearch(services_available, store) :
                    /\ ret' = [op |-> "search_invoices", source |-> "fetch",
                               data |-> data, due |-> FALSE,
                               force_refresh |-> force_refresh, key |-> k,
                               again |-> Again(ret, "search_invoices", k)]
                    /\ cache' = SetCacheDict(cache, ts, k, data)
                    /\ cache_timestamps' = SetCacheTs(cache, ts, k, now)
            /\ UNCHANGED <<now, timer, hist, obs, store, services_available, due>>
            /\ UNCHANGED breakerVars
            /\ UNCHANGED auxVars

\* the keys _clear_cache(pattern) removes
ClearCacheKeys(c, pattern) == {k \in CachedKeys(c) : Contains(k, pattern)}

\* cosmos_service.save_invoice: create_item succeeds only for a new id, and
\* may fail for a new one (HTTP error)
CosmosSaved(avail, s, n) ==
    IF avail.cosmos /\ n \notin s THEN {TRUE, FALSE} ELSE {FALSE}

\* search_service.index_invoice
SearchIndexed(avail) == IF avail.search THEN {TRUE, FALSE} ELSE {FALSE}

\* whether the two calls raise into save_invoice: cosmos_service.save_invoice
\* and search_service.index_invoice catch every exception and return False
CosmosSaveRaises == {FALSE}
IndexInvoiceRaises == {FALSE}

\* result["storage_warnings"]: a warning is appended in the except branch of
\* each call
StorageWarnings(cosmos_raised, search_raised) ==
    (IF cosmos_raised THEN {"Failed to save to CosmosDB"} ELSE {})
        \cup (IF search_raised THEN {"Failed to index in Azure Search"} ELSE {})

\* save_invoice's invalidation without its _clear_cache("invoice_list")
SaveInvalidatedListKept(c, invoice_number, client_key) ==
    ClearCacheKeys(c, CatStatistics)
        \cup {InvoiceDetailKey(invoice_number), ClientDataKey(client_key)}

\* the keys save_invoice removes once Cosmos DB has saved the invoice
SaveInvalidated(c, invoice_number, client_key) ==
    ClearCacheKeys(c, CatStatistics) \cup ClearCacheKeys(c, CatInvoiceList)
        \cup {InvoiceDetailKey(invoice_number), ClientDataKey(client_key)}

\* save_invoice(invoice_data) for an invoice numbered n
SaveInvoice(n) ==
    \E client_key \in ClientKeys :
    \E cosmos_saved \in CosmosSaved(services_available, store, n) :
    \E search_indexed \in SearchIndexed(services_available) :
    \E cosmos_raised \in CosmosSaveRaises :
    \E search_raised \in IndexInvoiceRaises :
        LET gone == IF cosmos_saved THEN SaveInvalidated(cache, n, client_key)
                    ELSE {}
        IN  /\ store' = IF cosmos_saved THEN store \cup {n} ELSE store
            /\ cache' = DictWithout(cache, gone)
            /\ cache_timestamps' = TsWithout(cache_timestamps, gone)
            /\ due' = IF cosmos_saved THEN DueKeys ELSE due
            /\ ret' = [op |-> "save_invoice", cosmos_saved |-> cosmos_saved,
                       search_indexed |-> search_indexed,
                       storage_warnings |->
                           StorageWarnings(cosmos_raised, search_raised)]
            /\ UNCHANGED <<now, timer, hist, obs, services_available>>
            /\ UNCHANGED breakerVars
            /\ UNCHANGED auxVars

\* cosmos_service.update_invoice_status: the document is read and replaced
UpdateSuccess(avail, s, n) ==
    IF avail.cosmos /\ n \in s THEN {TRUE, FALSE} ELSE {FALSE}

\* update_invoice_status's invalidation with _clear_cache("invoice_detail")
\* in place of the removal of the one entry
StatusInvalidatedAllDetails(c, invoice_number) ==
    ClearCacheKeys(c, CatStatistics) \cup ClearCacheKeys(c, CatInvoiceDetail)
        \cup {k \in CachedKeys(c) : StartsWith(k, CatSearchResults)}

\* the keys update_invoice_status removes once Cosmos DB has updated the
\* document
StatusInvalidated(c, invoice_number) ==
    ClearCacheKeys(c, CatStatistics) \cup {InvoiceDetailKey(invoice_number)}
        \cup {k \in CachedKeys(c) : StartsWith(k, CatSearchResults)}

\* update_invoice_status(invoice_number, status); the result records the
\* invoice_detail entries of other invoices the cache held at the call, and
\* whether it held any entry the update is to remove
UpdateInvoiceStatus(n) ==
    \E success \in UpdateSuccess(services_available, store, n) :
        LET gone == IF success THEN StatusInvalidated(cache, n) ELSE {}
        IN  /\ cache' = DictWithout(cache, gone)
            /\ cache_timestamps' = TsWithout(cache_timestamps, gone)
            /\ ret' = [op |-> "update_invoice_status", invoice_number |-> n,
                       value |-> success,
                       others |-> {k \in CachedKeys(cache) :
                                     k.cat = CatInvoiceDetail /\ k.disc # n},
                       had |-> gone \cap CachedKeys(cache) # {}]
            /\ UNCHANGED <<now, timer, hist, obs, store, services_available, due>>
            /\ UNCHANGED breakerVars
            /\ UNCHANGED auxVars

---------------------------------------------------------------------------
(* InvoiceQueue (src/components/invoice_queue.py).  A job record is its
   status and retry_count; the queue is the set of its <<priority, job_id>>
   entries, of which the worker takes the greatest: the zset's highest score
   (zrevrange), or the head of the list kept sorted in reverse.  Job ids
   (uuid4 strings) are numbers, ordered as the strings are. *)

JobIds == 1..NJobs
Priorities == {0, 1}

\* InvoiceJob.max_retries
job_max_retries == 3

\* InvoiceQueue(max_workers=3)
max_workers == 3

\* no record under this job id
NoJob == [status |-> "unknown", retry_count |-> 0]

\* get_job_status(job_id): the InvoiceJob object itself from _memory_jobs, an
\* InvoiceJob built from the hash on Redis; "unknown" stands for None
GetJobStatus(js, j) == js[j]

\* the records after update_job_status(job_id, status): the record is read
\* (get_job_status), given the status and written back
UpdateJobStatus(js, j, status) ==
    IF GetJobStatus(js, j).status = "unknown" THEN js
    ELSE [js EXCEPT ![j].status = status]

\* whether the failure path of _process_job retries the job
Retried(js, j) ==
    /\ GetJobStatus(js, j).status # "unknown"
    /\ GetJobStatus(js, j).retry_count < job_max_retries

\* the records after the failure path of _process_job: "job.retry_count += 1"
\* is made on the object get_job_status returned, and update_job_status then
\* reads the record again; in memory that is the same object, on Redis a new
\* one built from the hash, which still holds the old count
AfterJobFailure(redis, js, j) ==
    IF Retried(js, j)
    THEN IF redis
         THEN UpdateJobStatus(js, j, "queued")
         ELSE UpdateJobStatus([js EXCEPT ![j].retry_count = @ + 1], j, "queued")
    ELSE UpdateJobStatus(js, j, "failed")

\* the entry the failure path puts in the queue: priority -job.retry_count
\* of the incremented local object
RetryEntry(js, j) == <<0 - (GetJobStatus(js, j).retry_count + 1), j>>

\* whether queue entry a is taken before b
TakenBefore(a, b) == a[1] > b[1] \/ (a[1] = b[1] /\ a[2] > b[2])

\* the entry _get_next_job takes from a queue that is not empty
NextEntry(q) == CHOOSE a \in q : \A b \in q \ {a} : TakenBefore(a, b)

NewJHist == [failures |-> 0, runs |-> 0, cancelled |-> FALSE]

InitQueue ==
    /\ redis_client \in BOOLEAN
    /\ job_store = [j \in JobIds |-> NoJob]
    /\ invoice_queue = {}
    /\ tasks = [j \in JobIds |-> "none"]
    /\ jhist = [j \in JobIds |-> NewJHist]

\* what the actions of the queue leave alone
QueueFrame ==
    /\ UNCHANGED <<cacheVars, breakerVars, svcVars, singletonVars, limiterVars, extVars>>
    /\ UNCHANGED redis_client

\* enqueue_invoice(order_details, priority): a new job under a fresh id
EnqueueInvoice ==
    \E j \in JobIds : \E priority \in Priorities :
        /\ job_store[j] = NoJob
        /\ job_store' = [job_store EXCEPT ![j] = [status |-> "queued", retry_count |-> 0]]
        /\ invoice_queue' = invoice_queue \cup {<<priority, j>>}
        /\ ret' = [op |-> "enqueue_invoice", job_id |-> j,
                   status |-> job_store'[j].status]
        /\ UNCHANGED <<tasks, jhist>>
        /\ QueueFrame

\* _worker_loop: _get_next_job takes the next entry off the queue and the
\* job is submitted to the worker pool
GetNextJob ==
    /\ invoice_queue # {}
    /\ LET entry == NextEntry(invoice_queue)
       IN  /\ invoice_queue' = invoice_queue \ {entry}
           /\ tasks' = [tasks EXCEPT ![entry[2]] = "submitted"]
           /\ ret' = [op |-> "get_next_job", job_id |-> entry[2]]
    /\ UNCHANGED <<job_store, jhist>>
    /\ QueueFrame

\* _process_job(job_id) starts on a free worker: the job is read, set to
\* processing, and the generation call begins
ProcessStart ==
    \E j \in JobIds :
        /\ tasks[j] = "submitted"
        /\ Cardinality({i \in JobIds : tasks[i] = "running"}) < max_workers
        /\ IF GetJobStatus(job_store, j).status = "unknown"
           THEN /\ tasks' = [tasks EXCEPT ![j] = "none"]
                /\ UNCHANGED <<job_store, jhist>>
           ELSE /\ tasks' = [tasks EXCEPT ![j] = "running"]
                /\ job_store' = UpdateJobStatus(job_store, j, "processing")
                /\ jhist' = [jhist EXCEPT ![j].runs = @ + 1]
        /\ ret' = [op |-> "process_job", job_id |-> j, outcome |-> "started"]
        /\ UNCHANGED invoice_queue
        /\ QueueFrame

\* _process_job(job_id): generation and save succeed, the job is completed
ProcessSucceeds ==
    \E j \in JobIds :
        /\ tasks[j] = "running"
        /\ job_store' = UpdateJobStatus(job_store, j, "completed")
        /\ tasks' = [tasks EXCEPT ![j] = "none"]
        /\ ret' = [op |-> "process_job", job_id |-> j, outcome |-> "returned"]
        /\ UNCHANGED <<invoice_queue, jhist>>
        /\ QueueFrame

\* _process_job(job_id): an exception is raised, the failure path runs
ProcessFails ==
    \E j \in JobIds :
        /\ tasks[j] = "running"
        /\ jhist[j].failures < MaxJobFailures
        /\ job_store' = AfterJobFailure(redis_client, job_store, j)
        /\ invoice_queue' = IF Retried(job_store, j)
                            THEN invoice_queue \cup {RetryEntry(job_store, j)}
                            ELSE invoice_queue
        /\ tasks' = [tasks EXCEPT ![j] = "none"]
        /\ jhist' = [jhist EXCEPT ![j].failures = @ + 1]
        /\ ret' = [op |-> "process_job", job_id |-> j, outcome |-> "raised"]
        /\ QueueFrame

\* a cancel_job that also cancels a job being processed
CancelValueWhileProcessing(js, j) ==
    GetJobStatus(js, j).status \in {"queued", "processing"}

\* the value cancel_job(job_id) returns
CancelValue(js, j) == GetJobStatus(js, j).status = "queued"

\* cancel_job(job_id); the result records the status found, and whether the
\* records and the queue are as they were
CancelJob ==
    \E j \in JobIds :
        /\ IF CancelValue(job_store, j)
           THEN /\ job_store' = UpdateJobStatus(job_store, j, "cancelled")
                /\ invoice_queue' = {e \in invoice_queue : e[2] # j}
           ELSE UNCHANGED <<job_store, invoice_queue>>
        /\ jhist' = [jhist EXCEPT ![j].cancelled = @ \/ CancelValue(job_store, j)]
        /\ ret' = [op |-> "cancel_job", job_id |-> j,
                   value |-> CancelValue(job_store, j),
                   was |-> GetJobStatus(job_store, j).status,
                   unchanged |-> job_store' = job_store /\ invoice_queue' = invoice_queue]
        /\ UNCHANGED tasks
        /\ QueueFrame

---------------------------------------------------------------------------
(* The singleton: ServiceManager.__new__, ServiceManager.__init__ and
   get_service_manager, run by threads one bytecode-level step at a time.
   An object is named after the thread that created it. *)

Threads == 1..NThreads

\* None, where an object may be; a lock nobody holds
NoObject == 0
Unlocked == 0

\* a thread that has not asked for the manager yet
NewThread == [pc |-> "idle", via |-> "none", got |-> NoObject]

\* what the actions of the singleton leave alone
SingletonFrame ==
    UNCHANGED <<cacheVars, breakerVars, svcVars, queueVars, limiterVars, extVars,
                ret>>

\* the thread's next step within get_service_manager() or ServiceManager()
Step(t, pc) == threads' = [threads EXCEPT ![t].pc = pc]

\* a thread calls get_service_manager() or ServiceManager()
Obtain ==
    \E t \in Threads : \E via \in {"get_service_manager", "ServiceManager"} :
        /\ threads[t].pc = "idle"
        /\ threads[t].got = NoObject
        /\ threads' = [threads EXCEPT
                ![t] = [pc |-> IF via = "get_service_manager"
                               THEN "factory_check" ELSE "new_check",
                        via |-> via, got |-> NoObject]]
        /\ UNCHANGED <<singleton, inits>>
        /\ SingletonFrame

\* get_service_manager: "if _service_manager is None", outside the lock
FactoryCheck ==
    \E t \in Threads :
        /\ threads[t].pc = "factory_check"
        /\ Step(t, IF singleton.service_manager = NoObject
                   THEN "factory_lock" ELSE "factory_return")
        /\ UNCHANGED <<singleton, inits>>
        /\ SingletonFrame

\* get_service_manager: "with _manager_lock:" and the second test
FactoryLock ==
    \E t \in Threads :
        /\ threads[t].pc = "factory_lock"
        /\ singleton.manager_lock = Unlocked
        /\ IF singleton.service_manager = NoObject
           THEN /\ singleton' = [singleton EXCEPT !.manager_lock = t]
                /\ Step(t, "new_check")
           ELSE /\ UNCHANGED singleton
                /\ Step(t, "factory_return")
        /\ UNCHANGED inits
        /\ SingletonFrame

\* __new__: "if cls._instance is None", outside the lock
NewCheck ==
    \E t \in Threads :
        /\ threads[t].pc = "new_check"
        /\ Step(t, IF singleton.instance = NoObject THEN "new_lock" ELSE "init_check")
        /\ UNCHANGED <<singleton, inits>>
        /\ SingletonFrame

\* __new__: "with cls._lock:", the second test and the creation
NewLock ==
    \E t \in Threads :
        /\ threads[t].pc = "new_lock"
        /\ singleton.lock = Unlocked
        /\ singleton' = IF singleton.instance = NoObject
                        THEN [singleton EXCEPT !.instance = t]
                        ELSE singleton
        /\ Step(t, "init_check")
        /\ UNCHANGED inits
        /\ SingletonFrame

\* __init__: "if ServiceManager._initialized: return"
InitCheck ==
    \E t \in Threads :
        /\ threads[t].pc = "init_check"
        /\ Step(t, IF singleton.initialized THEN "constructed" ELSE "init_run")
        /\ UNCHANGED <<singleton, inits>>
        /\ SingletonFrame

\* __init__: RateLimitHandler(), _initialize_services(), _initialize_cache()
InitRun ==
    \E t \in Threads :
        /\ threads[t].pc = "init_run"
        /\ inits' = inits + 1
        /\ Step(t, "init_done")
        /\ UNCHANGED singleton
        /\ SingletonFrame

\* __init__: "ServiceManager._initialized = True"
InitDone ==
    \E t \in Threads :
        /\ threads[t].pc = "init_done"
        /\ singleton' = [singleton EXCEPT !.initialized = TRUE]
        /\ Step(t, "constructed")
        /\ UNCHANGED inits
        /\ SingletonFrame

\* ServiceManager() returns cls._instance: to the caller, or to
\* get_service_manager, which stores it and releases _manager_lock
Constructed ==
    \E t \in Threads :
        /\ threads[t].pc = "constructed"
        /\ IF threads[t].via = "get_service_manager"
           THEN /\ singleton' = [singleton EXCEPT
                        !.service_manager = singleton.instance,
                        !.manager_lock = Unlocked]
                /\ Step(t, "factory_return")
           ELSE /\ threads' = [threads EXCEPT
                        ![t].pc = "idle", ![t].got = singleton.instance]
                /\ UNCHANGED singleton
        /\ UNCHANGED inits
        /\ SingletonFrame

\* get_service_manager: "return _service_manager"
FactoryReturn ==
    \E t \in Threads :
        /\ threads[t].pc = "factory_return"
        /\ threads' = [threads EXCEPT
                ![t].pc = "idle", ![t].got = singleton.service_manager]
        /\ UNCHANGED <<singleton, inits>>
        /\ SingletonFrame

---------------------------------------------------------------------------
(* Threads calling through the shared with_retry wrapper.  Each attempt of
   a thread is a call of can_execute() and then, once the wrapped function
   has returned or raised, of record_success() or record_failure(); the
   methods of other threads run in between.  The sleeps of the wrapper are
   the ticks of the clock. *)

Callers == 1..NCallers

\* the messages the wrapped function raises: one that _classify_error takes
\* for a rate limit, one that it does not
TrialErrors == {{"rate limit"}, {"timeout"}}

InitTrial ==
    /\ calls = [t \in Callers |-> "idle"]
    /\ admitted = 0

\* what the steps of the calling threads leave alone
TrialFrame ==
    UNCHANGED <<cacheVars, svcVars, queueVars, singletonVars, wrapper, whist,
                sweepVars, numberVars, raceVars, cancelVars, wsVars>>

\* the calls admitted in the half-open trial, after a step from b to b2 in
\* which can_execute() returned value
Admitted(n, b, b2, value) ==
    IF b2.state # "HALF_OPEN" THEN 0
    ELSE IF b.state # "HALF_OPEN" THEN 1
    ELSE IF value THEN n + 1 ELSE n

\* thread t begins an attempt: can_execute(); a refusal is raised and
\* handled in the except block, which records a failure
CallerCanExecute(t) ==
    /\ calls[t] = "idle"
    /\ LET value == CanExecuteValue(breaker)
           b2 == AfterCanExecute(breaker)
       IN  IF value
           THEN /\ breaker' = b2
                /\ bhist' = SeenCanExecute(bhist, breaker, b2)
                /\ calls' = [calls EXCEPT ![t] = "call"]
                /\ admitted' = Admitted(admitted, breaker, b2, TRUE)
           ELSE /\ breaker.failure_count < MaxTrialFailures
                /\ breaker' = AfterRecordFailure(b2)
                /\ bhist' = SeenFailure(bhist, b2)
                /\ UNCHANGED <<calls, admitted>>
    /\ ret' = [op |-> "can_execute", value |-> CanExecuteValue(breaker)]
    /\ UNCHANGED limiterVars
    /\ TrialFrame

\* the wrapped function of thread t returns
CallerSucceeds(t) ==
    /\ calls[t] = "call"
    /\ breaker' = AfterRecordSuccess(breaker)
    /\ bhist' = SeenSuccess(bhist)
    /\ limiter' = AfterLimiterSuccess(limiter)
    /\ lhist' = Succeeded(lhist, limiter.requests_per_minute)
    /\ calls' = [calls EXCEPT ![t] = "idle"]
    /\ admitted' = Admitted(admitted, breaker, breaker', FALSE)
    /\ ret' = [op |-> "guarded_call", raised |-> {}]
    /\ TrialFrame

\* the wrapped function of thread t raises msg
CallerFails(t, msg) ==
    /\ calls[t] = "call"
    /\ breaker.failure_count < MaxTrialFailures
    /\ breaker' = AfterRecordFailure(breaker)
    /\ bhist' = [SeenFailure(bhist, breaker) EXCEPT !.op_failure = 0]
    /\ IF ClassifyError(msg) = "rate_limit"
       THEN /\ limiter.consecutive_rate_limits < MaxTrialRateLimits
            /\ limiter' = AfterRateLimit(limiter)
            /\ lhist' = <<>>
       ELSE UNCHANGED limiterVars
    /\ calls' = [calls EXCEPT ![t] = "idle"]
    /\ admitted' = Admitted(admitted, breaker, breaker', FALSE)
    /\ ret' = [op |-> "guarded_call", raised |-> msg]
    /\ TrialFrame

\* time passes
TrialTick ==
    /\ breaker.last_failure # Never
    /\ breaker.last_failure <= recovery_timeout
    /\ breaker' = Elapse(breaker, IdleStep)
    /\ bhist' = ElapseHist(bhist, IdleStep)
    /\ UNCHANGED <<ret, limiterVars, trialVars>>
    /\ TrialFrame

---------------------------------------------------------------------------
(* cleanup_expired_cache on its timer thread, while request threads use the
   cache.  "for cache_key, timestamp in self.cache_timestamps.items()"
   iterates the live dict: the iterator raises RuntimeError at its next step
   when the dict's size is no longer the one it saw when it was created. *)

\* pc is "waiting" while a timer is armed, "iterating" within the for loop,
\* "stopped" once the thread has ended with no timer armed
InitSweep == sweep = [pc |-> "waiting", used |-> 0]

\* what the steps of the timer thread leave alone
SweepFrame ==
    UNCHANGED <<now, ret, hist, obs, breakerVars, svcVars, queueVars,
                singletonVars, limiterVars, trialVars, numberVars,
                raceVars, cancelVars, wsVars>>

\* the timer fires: cleanup_expired_cache enters its for loop
SweepBegin ==
    /\ sweep.pc = "waiting"
    /\ now >= timer
    /\ sweep' = [pc |-> "iterating", used |-> Cardinality(DOMAIN cache_timestamps)]
    /\ UNCHANGED <<cache, cache_timestamps, timer>>
    /\ SweepFrame

\* the for loop ends: with the expired keys collected, which are removed and
\* the next timer armed, or with the RuntimeError, which the except block
\* prints
SweepEnd ==
    /\ sweep.pc = "iterating"
    /\ IF Cardinality(DOMAIN cache_timestamps) = sweep.used
       THEN /\ cache' = DictWithout(cache, ExpiredKeys(cache_timestamps, now))
            /\ cache_timestamps' =
                   TsWithout(cache_timestamps, ExpiredKeys(cache_timestamps, now))
            /\ timer' = now + CleanupInterval
            /\ sweep' = [sweep EXCEPT !.pc = "waiting"]
       ELSE /\ sweep' = [sweep EXCEPT !.pc = "stopped"]
            /\ UNCHANGED <<cache, cache_timestamps, timer>>
    /\ SweepFrame

---------------------------------------------------------------------------
(* InvoiceGenerationSystem._generate_invoice_number, each number saved by
   save_invoice before the next one is generated.  The list cached under the
   query's key is in the cache by its truthiness and its length is
   search_cached. *)

\* f"INV-{now.year}-{next_number:06d}" for next_number = 1, 2, ...
SequenceNumbers ==
    <<"INV-000001", "INV-000002", "INV-000003", "INV-000004", "INV-000005",
      "INV-000006">>

\* f"INV-{now.year}-{timestamp}", timestamp = now.strftime("%m%d%H%M%S"), at
\* each time of the clock
TimestampNumbers ==
    <<"INV-T0", "INV-T1", "INV-T2", "INV-T3", "INV-T4">>

FallbackNumber(t) == TimestampNumbers[(t \div TickStep) + 1]

\* md5 prefix of the query f"INV-{now.year}"
YearKey == SearchResultsKey("year")

InitNumber ==
    /\ issued = <<>>
    /\ search_cached = 0

\* the invoices search_invoices(f"INV-{now.year}") finds that start with
\* f"INV-{now.year}", when the search index and Cosmos DB hold every invoice
\* saved
YearResults(s) == s

Issued(h) == {h[i] : i \in DOMAIN h}

NumberFrame ==
    UNCHANGED <<now, timer, hist, obs, store, services_available, due,
                breakerVars, queueVars, singletonVars, limiterVars, trialVars,
                sweepVars, raceVars, cancelVars, wsVars>>

\* _generate_invoice_number(): the count of the year's invoices plus one, from
\* the cached results if there are any, or the timestamp number when the query
\* has not returned within 10 seconds
GenerateInvoiceNumber ==
    /\ Len(issued) < MaxGenerations
    /\ Issued(issued) \subseteq store
    /\ LET cached == GetFromCacheValue(cache, cache_timestamps, YearKey, now)
           ts == GetFromCacheTs(cache_timestamps, YearKey, now)
           results == YearResults(store)
           data == IF results = {} THEN "empty" ELSE "items"
           count == IF Truthy(cached) THEN search_cached ELSE Cardinality(results)
       IN  /\ IF Truthy(cached)
              THEN /\ cache' = cache
                   /\ cache_timestamps' = ts
                   /\ search_cached' = search_cached
              ELSE /\ cache' = SetCacheDict(cache, ts, YearKey, data)
                   /\ cache_timestamps' = SetCacheTs(cache, ts, YearKey, now)
                   /\ search_cached' = Cardinality(results)
           /\ \E timed_out \in BOOLEAN :
                 LET number == IF timed_out THEN FallbackNumber(now)
                               ELSE SequenceNumbers[count + 1]
                 IN  /\ issued' = Append(issued, number)
                     /\ ret' = [op |-> "generate_invoice_number",
                                number |-> number,
                                source |-> IF timed_out THEN "timestamp"
                                           ELSE IF Truthy(cached) THEN "cache"
                                           ELSE "fetch",
                                repeated |-> number \in Issued(issued)]
    /\ NumberFrame

\* save_invoice of the invoice just generated, saved by Cosmos DB
SaveGenerated ==
    /\ issued # <<>>
    /\ issued[Len(issued)] \notin store
    /\ SaveInvoice(issued[Len(issued)])
    /\ ret'.cosmos_saved

---------------------------------------------------------------------------
(* get_statistics and list_invoices on request threads, while other threads
   save invoices.  A read that misses the cache fetches from Cosmos DB and
   then calls _set_cache; no lock is held in between, so the methods of
   other threads run between the two. *)

Readers == 1..NReaders

\* the reads made: get_statistics(), list_invoices(10)
RaceReads ==
    {[op |-> "get_statistics", key |-> StatisticsKey],
     [op |-> "list_invoices", key |-> InvoiceListKey("10")]}

RaceKeys == {r.key : r \in RaceReads}

IdleRead == [pc |-> "idle"]

InitRace ==
    /\ reads = [t \in Readers |-> IdleRead]
    /\ seen = [k \in RaceKeys |-> {}]

\* what cosmos_service returns to the read r when the container holds s
RaceFetched(r, s) ==
    IF r.op = "get_statistics" THEN FetchedStatistics ELSE FetchedList(s)

RaceFrame ==
    UNCHANGED <<now, timer, hist, obs, store, services_available, due,
                breakerVars, queueVars, singletonVars, limiterVars, trialVars,
                sweepVars, numberVars, cancelVars, wsVars>>

\* thread t calls get_statistics() or list_invoices(10): the cached value is
\* returned if it is there and true; otherwise the thread fetches from
\* Cosmos DB
ReadBegin(t, r) ==
    /\ reads[t] = IdleRead
    /\ LET cached == GetFromCacheValue(cache, cache_timestamps, r.key, now)
       IN  /\ cache_timestamps' = GetFromCacheTs(cache_timestamps, r.key, now)
           /\ IF Truthy(cached)
              THEN /\ ret' = [op |-> r.op, source |-> "cache", data |-> cached,
                              key |-> r.key, seen |-> seen[r.key]]
                   /\ reads' = reads
              ELSE \E data \in RaceFetched(r, store) :
                   /\ reads' = [reads EXCEPT ![t] =
                                   [pc |-> "fetched", op |-> r.op, key |-> r.key,
                                    data |-> data, seen |-> store]]
                   /\ ret' = NoRet
    /\ UNCHANGED <<cache, seen>>
    /\ RaceFrame

\* thread t stores what it fetched and returns it
ReadStore(t) ==
    /\ reads[t].pc = "fetched"
    /\ cache' = SetCacheDict(cache, cache_timestamps, reads[t].key, reads[t].data)
    /\ cache_timestamps' =
           SetCacheTs(cache, cache_timestamps, reads[t].key, now)
    /\ seen' = [seen EXCEPT ![reads[t].key] = reads[t].seen]
    /\ ret' = [op |-> reads[t].op, source |-> "fetch", data |-> reads[t].data,
               key |-> reads[t].key, seen |-> reads[t].seen]
    /\ reads' = [reads EXCEPT ![t] = IdleRead]
    /\ RaceFrame

\* a thread saves an invoice
RaceSaveInvoice == \E n \in InvoiceNumbers : SaveInvoice(n)

---------------------------------------------------------------------------
(* cancel_job on the in-memory backend, step by step.  The queue is replaced
   by a new list, "self._memory_queue = [... for ... in self._memory_queue
   if jid != job_id]": the list is built from the queue as it is read and
   assigned afterwards, and the methods of other threads run in between. *)

NotCancelling == [pc |-> "idle"]

InitCancel == cancelling = NotCancelling

CancelFrame ==
    UNCHANGED <<cacheVars, breakerVars, svcVars, singletonVars, limiterVars,
                trialVars, sweepVars, numberVars, raceVars, wsVars,
                redis_client>>

\* cancel_job(job_id) up to the list built by the comprehension
CancelBegin ==
    \E j \in JobIds :
        /\ ~redis_client
        /\ cancelling = NotCancelling
        /\ IF CancelValue(job_store, j)
           THEN /\ job_store' = UpdateJobStatus(job_store, j, "cancelled")
                /\ cancelling' =
                       [pc |-> "built", job_id |-> j,
                        queue |-> {e \in invoice_queue : e[2] # j}]
                /\ ret' = NoRet
           ELSE /\ UNCHANGED <<job_store, cancelling>>
                /\ ret' = [op |-> "cancel_job", job_id |-> j, value |-> FALSE,
                           was |-> GetJobStatus(job_store, j).status,
                           unchanged |-> TRUE]
        /\ jhist' = [jhist EXCEPT ![j].cancelled = @ \/ CancelValue(job_store, j)]
        /\ UNCHANGED <<invoice_queue, tasks>>
        /\ CancelFrame

\* the new list is assigned to self._memory_queue and cancel_job returns True
CancelAssign ==
    /\ cancelling.pc = "built"
    /\ invoice_queue' = cancelling.queue
    /\ cancelling' = NotCancelling
    /\ ret' = [op |-> "cancel_job", job_id |-> cancelling.job_id, value |-> TRUE,
               was |-> "queued", unchanged |-> FALSE]
    /\ UNCHANGED <<job_store, tasks, jhist>>
    /\ CancelFrame

---------------------------------------------------------------------------
(* WebSocketManager: connections, their subscriptions and broadcast_update.
   A client message carries an action and a list of type strings; a string
   that is not an UpdateType value raises ValueError and is skipped. *)

NClients == 2
MaxTypes == 2

Clients == 1..NClients

\* enum UpdateType
UpdateTypes ==
    {"job_status", "dashboard_data", "system_status", "notification", "error"}

\* the strings clients put in "types": values of the enum and another string
TypeStrings == {"job_status", "dashboard_data", "notification", "invalid"}

\* the "types" lists of a message (add and discard do not depend on order)
TypeLists == {l \in SUBSET TypeStrings : Cardinality(l) <= MaxTypes}

NewSubHist == [subscribed |-> FALSE, unsubscribed |-> {}]

InitWebSocket ==
    /\ clients = {}
    /\ client_subscriptions = [c \in Clients |-> {}]
    /\ subhist = [c \in Clients |-> NewSubHist]

WebSocketFrame ==
    UNCHANGED <<cacheVars, breakerVars, svcVars, queueVars, singletonVars,
                limiterVars, trialVars, sweepVars, numberVars, raceVars,
                cancelVars>>

\* handle_client: a new connection is registered with no subscription
Connect(c) ==
    /\ c \notin clients
    /\ clients' = clients \cup {c}
    /\ client_subscriptions' = [client_subscriptions EXCEPT ![c] = {}]
    /\ subhist' = [subhist EXCEPT ![c] = NewSubHist]
    /\ ret' = [op |-> "handle_client", client |-> c]
    /\ WebSocketFrame

\* handle_client's finally, send_to_client on ConnectionClosed
Disconnect(c) ==
    /\ c \in clients
    /\ clients' = clients \ {c}
    /\ client_subscriptions' = [client_subscriptions EXCEPT ![c] = {}]
    /\ subhist' = [subhist EXCEPT ![c] = NewSubHist]
    /\ ret' = [op |-> "disconnect", client |-> c]
    /\ WebSocketFrame

\* handle_client_message, action "subscribe"
Subscribe(c, types) ==
    /\ c \in clients
    /\ client_subscriptions' =
           [client_subscriptions EXCEPT ![c] = @ \cup (types \cap UpdateTypes)]
    /\ subhist' =
           [subhist EXCEPT
               ![c].subscribed = @ \/ (types \cap UpdateTypes # {}),
               ![c].unsubscribed = @ \ types]
    /\ ret' = [op |-> "subscribe", client |-> c,
               subscriptions |-> client_subscriptions'[c]]
    /\ UNCHANGED clients
    /\ WebSocketFrame

\* handle_client_message, action "unsubscribe"
Unsubscribe(c, types) ==
    /\ c \in clients
    /\ client_subscriptions' =
           [client_subscriptions EXCEPT ![c] = @ \ (types \cap UpdateTypes)]
    /\ subhist' =
           [subhist EXCEPT
               ![c].unsubscribed =
                   IF subhist[c].subscribed
                   THEN @ \cup (types \cap UpdateTypes) ELSE @]
    /\ ret' = [op |-> "unsubscribe", client |-> c]
    /\ UNCHANGED clients
    /\ WebSocketFrame

\* the clients broadcast_update sends an update of type update_type to
TargetClients(cs, subs, update_type) ==
    {c \in cs : subs[c] = {} \/ update_type \in subs[c]}

\* broadcast_update(update)
BroadcastUpdate(update_type) ==
    /\ ret' = [op |-> "broadcast_update", update_type |-> update_type,
               target_clients |->
                   TargetClients(clients, client_subscriptions, update_type)]
    /\ UNCHANGED wsVars
    /\ WebSocketFrame

---------------------------------------------------------------------------
(* Specification SpecSize: any sequence of _set_cache calls *)

ListKeys == {Key(CatInvoiceList, d) : d \in 1..NListKeys}
StatKeys == {Key(CatStatistics, d) : d \in 1..NStatKeys}
SizeKeys == ListKeys \cup StatKeys

\* keys of one category are interchangeable: a key new to the cache is the
\* lowest-numbered absent key of its category
Canonical(k) ==
    \/ k \in CachedKeys(cache)
    \/ \A j \in SizeKeys :
          (j.cat = k.cat /\ j.disc < k.disc) => j \in CachedKeys(cache)

InitCache ==
    /\ now = 0
    /\ cache = <<>>
    /\ cache_timestamps = <<>>
    /\ timer = CleanupInterval
    /\ ret = NoRet
    /\ hist = <<>>
    /\ obs = NoObs

SizeSetCache == \E k \in SizeKeys : Canonical(k) /\ SetCache(k, "data")

\* the services reached at construction, the documents the container holds
AllAvailable == [cosmos |-> TRUE, search |-> TRUE]

InitServices ==
    /\ services_available \in [cosmos : BOOLEAN, search : BOOLEAN]
    /\ store \in SUBSET InvoiceNumbers
    /\ due = {}

\* no thread has asked for the manager yet
InitSingleton ==
    /\ singleton = [instance |-> NoObject, initialized |-> FALSE,
                    service_manager |-> NoObject,
                    lock |-> Unlocked, manager_lock |-> Unlocked]
    /\ threads = [t \in Threads |-> NewThread]
    /\ inits = 0

\* AdaptiveRateLimiter.__init__
InitLimiter ==
    /\ limiter = [requests_per_minute |-> 60, consecutive_successes |-> 0,
                  consecutive_rate_limits |-> 0]
    /\ lhist = <<>>

Init ==
    /\ InitCache /\ InitBreaker /\ InitServices
    /\ InitQueue /\ InitSingleton /\ InitLimiter
    /\ InitTrial /\ InitSweep /\ InitNumber /\ InitRace /\ InitCancel
    /\ InitWebSocket

InitSize ==
    Init /\ services_available = AllAvailable /\ store = {} /\ ~redis_client
NextSize == SizeSetCache
SpecSize == InitSize /\ [][NextSize]_vars

---------------------------------------------------------------------------
(* Specification SpecTTL: writes and reads of the cache as time passes *)

TTLKeys ==
    {Key(CatStatistics, "main"), Key(CatSearchResults, "q1"),
     Key(CatInvoiceDetail, "INV-1")}

TTLSetCache == \E k \in TTLKeys : SetCache(k, "data")
TTLGetFromCache == \E k \in TTLKeys : GetFromCache(k)

InitTTL ==
    Init /\ services_available = AllAvailable /\ store = {} /\ ~redis_client
NextTTL == TTLSetCache \/ TTLGetFromCache \/ CleanupExpiredCache \/ Tick
SpecTTL == InitTTL /\ [][NextTTL]_vars

---------------------------------------------------------------------------
(* Specification SpecBreaker: any sequence of calls on the breaker *)

InitBreakerSpec ==
    Init /\ services_available = AllAvailable /\ store = {} /\ ~redis_client
NextBreaker == CanExecute \/ RecordSuccess \/ RecordFailure \/ BreakerTick
SpecBreaker == InitBreakerSpec /\ [][NextBreaker]_vars

---------------------------------------------------------------------------
(* Specification SpecRetry: guarded calls through the with_retry wrapper *)

InitRetry ==
    Init /\ services_available = AllAvailable /\ store = {} /\ ~redis_client
NextRetry ==
    \/ GuardedCall
    \/ AttemptRejected
    \/ AttemptSucceeds
    \/ AttemptFailsAny
    \/ BreakerTick
SpecRetry == InitRetry /\ [][NextRetry]_vars

---------------------------------------------------------------------------
(* Specification SpecSave: invoices are saved and updated while the
   dashboard reads the statistics, the invoice list at two page sizes and
   one invoice, all within the TTL of the entries (the clock stands still) *)

SaveListInvoices == \E limit \in PageSizes : ListInvoices(limit)
SaveGetInvoice == GetInvoice("INV-1")
SaveSaveInvoice == \E n \in InvoiceNumbers : SaveInvoice(n)
SaveUpdateInvoiceStatus == \E n \in InvoiceNumbers : UpdateInvoiceStatus(n)

InitSave == Init /\ ~redis_client
NextSave ==
    \/ GetStatistics
    \/ SaveListInvoices
    \/ SaveGetInvoice
    \/ SaveSaveInvoice
    \/ SaveUpdateInvoiceStatus
SpecSave == InitSave /\ [][NextSave]_vars

---------------------------------------------------------------------------
(* Specification SpecStatus: invoices are saved and updated while the
   dashboard reads the statistics, both invoices and one search, all within
   the TTL of the entries (the clock stands still) *)

StatusGetInvoice == \E n \in InvoiceNumbers : GetInvoice(n)
StatusSearchInvoices == \E q \in QueryHashes : SearchInvoices(q)
StatusSaveInvoice == \E n \in InvoiceNumbers : SaveInvoice(n)
StatusUpdateInvoiceStatus == \E n \in InvoiceNumbers : UpdateInvoiceStatus(n)

InitStatus == Init /\ ~redis_client
NextStatus ==
    \/ GetStatistics
    \/ StatusGetInvoice
    \/ StatusSearchInvoices
    \/ StatusSaveInvoice
    \/ StatusUpdateInvoiceStatus
SpecStatus == InitStatus /\ [][NextStatus]_vars

---------------------------------------------------------------------------
(* Specification SpecQueue: jobs are enqueued, taken by the worker loop,
   processed by the pool and cancelled, on either backend *)

InitQueueSpec == Init /\ services_available = AllAvailable /\ store = {}
NextQueue ==
    \/ EnqueueInvoice
    \/ GetNextJob
    \/ ProcessStart
    \/ ProcessSucceeds
    \/ ProcessFails
    \/ CancelJob
SpecQueue == InitQueueSpec /\ [][NextQueue]_vars

---------------------------------------------------------------------------
(* Specification SpecSingleton: threads obtain the manager, each through
   get_service_manager() or ServiceManager(), in any interleaving *)

InitSingletonSpec ==
    Init /\ services_available = AllAvailable /\ store = {} /\ ~redis_client
NextSingleton ==
    \/ Obtain
    \/ FactoryCheck
    \/ FactoryLock
    \/ NewCheck
    \/ NewLock
    \/ InitCheck
    \/ InitRun
    \/ InitDone
    \/ Constructed
    \/ FactoryReturn
SpecSingleton == InitSingletonSpec /\ [][NextSingleton]_vars

---------------------------------------------------------------------------
(* Specification SpecLimiter: any sequence of record_success and
   record_rate_limit calls on the rate limiter *)

InitLimiterSpec ==
    Init /\ services_available = AllAvailable /\ store = {} /\ ~redis_client
NextLimiter == LimiterRecordSuccess \/ LimiterRecordRateLimit
SpecLimiter == InitLimiterSpec /\ [][NextLimiter]_vars

---------------------------------------------------------------------------
(* Specification SpecTrial: threads calling through the with_retry wrapper
   at the same time *)

InitTrialSpec ==
    Init /\ services_available = AllAvailable /\ store = {} /\ ~redis_client
NextTrial ==
    \/ \E t \in Callers : CallerCanExecute(t)
    \/ \E t \in Callers : CallerSucceeds(t)
    \/ \E t \in Callers : \E msg \in TrialErrors : CallerFails(t, msg)
    \/ TrialTick
SpecTrial == InitTrialSpec /\ [][NextTrial]_vars

---------------------------------------------------------------------------
(* Specification SpecEvict: any sequence of _set_cache calls for
   invoice_list and invoice_detail keys *)

EvictKeys ==
    {Key(CatInvoiceList, d) : d \in 1..NEvictListKeys}
        \cup {Key(CatInvoiceDetail, d) : d \in 1..NEvictDetailKeys}

\* the keys stored are new to the cache; keys of one category are
\* interchangeable: the new key is the lowest-numbered absent key of its
\* category
EvictCanonical(k) ==
    /\ k \notin CachedKeys(cache)
    /\ \A j \in EvictKeys :
          (j.cat = k.cat /\ j.disc < k.disc) => j \in CachedKeys(cache)

EvictSetCache == \E k \in EvictKeys : EvictCanonical(k) /\ SetCache(k, "data")

InitEvict ==
    Init /\ services_available = AllAvailable /\ store = {} /\ ~redis_client
NextEvict == EvictSetCache
SpecEvict == InitEvict /\ [][NextEvict]_vars

---------------------------------------------------------------------------
(* Specification SpecSweep: writes and reads of the cache by request
   threads while the timer thread sweeps *)

InitSweepSpec ==
    Init /\ services_available = AllAvailable /\ store = {} /\ ~redis_client
NextSweep ==
    TTLSetCache \/ TTLGetFromCache \/ SweepBegin \/ SweepEnd \/ Tick
SpecSweep == InitSweepSpec /\ [][NextSweep]_vars

---------------------------------------------------------------------------
(* Specification SpecNumber: invoice numbers generated and saved one after
   the other as time passes *)

InitNumberSpec ==
    Init /\ services_available = AllAvailable /\ store = {} /\ ~redis_client
NextNumber == GenerateInvoiceNumber \/ SaveGenerated \/ Tick
SpecNumber == InitNumberSpec /\ [][NextNumber]_vars

---------------------------------------------------------------------------
(* Specification SpecRace: reads through the cache and saves made by
   threads at the same time *)

InitRaceSpec ==
    Init /\ services_available = AllAvailable /\ store = {} /\ ~redis_client
NextRace ==
    \/ \E t \in Readers : \E r \in RaceReads : ReadBegin(t, r)
    \/ \E t \in Readers : ReadStore(t)
    \/ RaceSaveInvoice
SpecRace == InitRaceSpec /\ [][NextRace]_vars

---------------------------------------------------------------------------
(* Specification SpecWorkers: the in-memory queue with its worker loop
   running: jobs are enqueued, cancelled, taken and processed by threads at
   the same time.  The worker loop and the pool's workers are scheduled
   fairly, generation calls return, and a cancel_job that has begun ends. *)

InitWorkers ==
    Init /\ services_available = AllAvailable /\ store = {} /\ ~redis_client
NextWorkers ==
    \/ EnqueueInvoice \/ GetNextJob \/ ProcessStart
    \/ ProcessSucceeds \/ ProcessFails
    \/ CancelBegin \/ CancelAssign
SpecWorkers ==
    /\ InitWorkers /\ [][NextWorkers]_vars
    /\ WF_vars(GetNextJob) /\ WF_vars(ProcessStart)
    /\ WF_vars(ProcessSucceeds \/ ProcessFails)
    /\ WF_vars(CancelAssign)

---------------------------------------------------------------------------
(* Specification SpecWebSocket: connections come and go, send subscribe and
   unsubscribe messages, and updates of every type are broadcast. *)

InitWebSocketSpec == Init /\ services_available = AllAvailable /\ store = {}
                          /\ ~redis_client
NextWebSocket ==
    \/ \E c \in Clients : Connect(c) \/ Disconnect(c)
    \/ \E c \in Clients, types \in TypeLists :
           Subscribe(c, types) \/ Unsubscribe(c, types)
    \/ \E update_type \in UpdateTypes : BroadcastUpdate(update_type)
SpecWebSocket == InitWebSocketSpec /\ [][NextWebSocket]_vars

---------------------------------------------------------------------------
\* C1: for every configured category, the number of cache entries whose key
\* belongs to it is at most the category's cache_max_size
C1_SizeBound ==
    \A cat \in Categories :
        Cardinality({k \in CachedKeys(cache) : k.cat = cat}) <= cache_max_size[cat]

\* C2: a value stored under a key of category C and not read, overwritten or
\* invalidated since is returned by _get_from_cache at every time before
\* T + cache_ttl[C] and reported absent at every time after it
C2_TTL ==
    (ret.op = "get" /\ obs.known /\ obs.unread) =>
        /\ obs.age < cache_ttl[ret.key.cat] => ret.data # "None"
        /\ obs.age > cache_ttl[ret.key.cat] => ret.data = "None"

\* C10: an entry is reported absent at every time later than its last write
\* plus the TTL of its category, however many hits happened in between
\* (stated for an age beyond the TTL the lookup applies to the key as well, so
\* that only reads in between can account for a hit)
C10_AbsoluteExpiry ==
    (ret.op = "get" /\ obs.known
        /\ obs.age > cache_ttl[ret.key.cat] /\ obs.age > TTLOf(ret.key))
    => ret.data = "None"

\* C6: after failure_threshold record_failure calls in a row, from any breaker
\* state, the state is OPEN, and can_execute() returns false for as long as
\* recovery_timeout has not elapsed since the last recorded failure
C6_Opens ==
    (/\ bhist.failures >= failure_threshold
     /\ breaker.last_failure # Never
     /\ breaker.last_failure <= recovery_timeout)
    => (breaker.state = "OPEN" /\ ~CanExecuteValue(breaker))

C6_Witness ==
    /\ bhist.failures >= failure_threshold
    /\ breaker.last_failure = recovery_timeout
    /\ ret = [op |-> "can_execute", value |-> FALSE]

\* C9: once the breaker is HALF_OPEN, fewer than half_open_max_calls
\* record_success calls (no record_failure in between) leave it HALF_OPEN, and
\* half_open_max_calls of them move it to CLOSED with failure_count 0
C9_HalfOpenRecovery ==
    bhist.trial # Never =>
        IF bhist.trial < half_open_max_calls
        THEN breaker.state = "HALF_OPEN"
        ELSE breaker.state = "CLOSED" /\ breaker.failure_count = 0

C9_Witness ==
    /\ bhist.trial = half_open_max_calls
    /\ breaker.state = "CLOSED"
    /\ ret.op = "record_success"

\* C7: once the breaker is OPEN, a guarded call made more than
\* recovery_timeout after the last failure of the wrapped operation is admitted
\* as a trial call, however many guarded calls the open breaker rejected in
\* the meantime
C7_RecoveryThroughWrapper ==
    (whist.late /\ whist.first # "pending") => whist.first = "admitted"

\* C8: in a guarded call made while the breaker is OPEN and recovery_timeout
\* has not elapsed since the last failure, no attempt invokes the wrapped
\* operation and the call ends by raising the circuit-breaker-open error
C8_FailFast ==
    whist.open =>
        /\ ~whist.invoked
        /\ (wrapper.pc = "idle" => ret = [op |-> "guarded_call", raised |-> BreakerOpenError])

C8_Witness ==
    /\ whist.open
    /\ wrapper.pc = "idle"
    /\ ret = [op |-> "guarded_call", raised |-> BreakerOpenError]

---------------------------------------------------------------------------
\* C3: after save_invoice has returned with cosmos_saved true, the next
\* get_statistics() and the next list_invoices(limit), for each limit, are
\* served by a fresh fetch from the document store, not by the cache
C3_FreshAfterSave ==
    (ret.op \in {"get_statistics", "list_invoices"} /\ ret.due)
        => ret.source = "fetch"

\* a list_invoices call without force_refresh, the first at its page size
\* since a successful save, that fetched
C3_Witness ==
    /\ ret.op = "list_invoices"
    /\ ret.due
    /\ ~ret.force_refresh
    /\ ret.source = "fetch"
    /\ StatisticsKey \in CachedKeys(cache)

\* C4: after save_invoice has returned with cosmos_saved true, and after
\* update_invoice_status has returned true, the cache holds no invoice_list
\* entry
C4_ListInvalidated ==
    (\/ ret.op = "save_invoice" /\ ret.cosmos_saved
     \/ ret.op = "update_invoice_status" /\ ret.value)
        => \A k \in CachedKeys(cache) : k.cat # CatInvoiceList

\* C5: after update_invoice_status(N, s) has returned true, the cache holds
\* no statistics entry, no search_results entry and no invoice_detail entry
\* for N, and still holds every invoice_detail entry of another invoice it
\* held at the call
C5_StatusInvalidation ==
    (ret.op = "update_invoice_status" /\ ret.value) =>
        /\ \A k \in CachedKeys(cache) : k.cat \notin {CatStatistics, CatSearchResults}
        /\ InvoiceDetailKey(ret.invoice_number) \notin CachedKeys(cache)
        /\ ret.others \subseteq CachedKeys(cache)

\* a successful status update that had entries to remove and found another
\* invoice's detail entry in the cache
C5_Witness ==
    /\ ret.op = "update_invoice_status"
    /\ ret.value
    /\ ret.had
    /\ ret.others # {}

---------------------------------------------------------------------------
\* C11: a list_invoices(limit) or search_invoices(q) call without
\* force_refresh that repeats the call made just before it (same key, no
\* write in between, within the TTL) performs no fetch, whatever the first
\* call returned, an empty result included.  (A search made while neither
\* the index nor the document store is available queries nothing, and is
\* left aside.)
C11_RepeatedReadHits ==
    (/\ ret.op \in {"list_invoices", "search_invoices"}
     /\ ret.again
     /\ ~ret.force_refresh
     /\ services_available.search \/ services_available.cosmos)
        => ret.source # "fetch"

---------------------------------------------------------------------------
\* C12: while Cosmos DB is marked unavailable, every get_statistics call
\* returns the dict with total_invoices 0 and an error entry, every
\* list_invoices call the empty list and every get_invoice call None, the
\* first call and every repetition alike
C12_DegradedRead ==
    (~services_available.cosmos
     /\ ret.op \in {"get_statistics", "list_invoices", "get_invoice"}) =>
        /\ ret.source = "degraded"
        /\ ret.op = "get_statistics" => ret.data = "stats_unavailable"
        /\ ret.op = "list_invoices" => ret.data = "empty"
        /\ ret.op = "get_invoice" => ret.data = "None"

\* a get_statistics call repeated while Cosmos DB is unavailable
C12_Witness ==
    /\ ~services_available.cosmos
    /\ ret.op = "get_statistics"
    /\ ret.again
    /\ ret.source = "degraded"

---------------------------------------------------------------------------
\* C13: on either backend, a job whose processing has just failed is queued
\* again if that was one of its first max_retries failures and is failed if
\* it was its (max_retries+1)-th; a job that has failed max_retries+1 times
\* stays failed and its processing fails no further time
C13_RetryBudget ==
    /\ \A j \in JobIds :
          /\ jhist[j].failures <= job_max_retries + 1
          /\ jhist[j].failures = job_max_retries + 1 => job_store[j].status = "failed"
    /\ (ret.op = "process_job" /\ ret.outcome = "raised"
            /\ jhist[ret.job_id].failures <= job_max_retries)
          => job_store[ret.job_id].status = "queued"

\* C14: a job that cancel_job has returned true for has status cancelled,
\* whatever the worker loop and the worker pool have done since
C14_CancelledIsTerminal ==
    \A j \in JobIds : jhist[j].cancelled => job_store[j].status = "cancelled"

\* C15: the job enqueue_invoice returns is queued; cancel_job returns true
\* exactly when it finds the job queued, and then the job is cancelled and
\* has no entry in the queue; when it returns false the records and the
\* queue are as they were
C15_CancelContract ==
    /\ ret.op = "enqueue_invoice" => ret.status = "queued"
    /\ ret.op = "cancel_job" =>
          /\ ret.value <=> ret.was = "queued"
          /\ ret.value =>
                /\ job_store[ret.job_id].status = "cancelled"
                /\ \A e \in invoice_queue : e[2] # ret.job_id
          /\ ~ret.value => ret.unchanged

\* a cancel_job that found the job processing and refused
C15_Witness ==
    /\ ret.op = "cancel_job"
    /\ ~ret.value
    /\ ret.was = "processing"
    /\ \E j \in JobIds : jhist[j].cancelled

---------------------------------------------------------------------------
\* C16: in every interleaving, the threads that have obtained the manager
\* hold the same instance, and the initialization of services and cache has
\* run at most once
C16_Singleton ==
    /\ \A t, u \in Threads :
          (threads[t].got # NoObject /\ threads[u].got # NoObject)
              => threads[t].got = threads[u].got
    /\ inits <= 1

---------------------------------------------------------------------------
\* C17: requests_per_minute is between 10 and 120 inclusive in every state
\* of the rate limiter
C17_RateBounds ==
    /\ limiter.requests_per_minute >= 10
    /\ limiter.requests_per_minute <= 120

\* a rate-limit event recorded when the ceiling was already at its floor
C17_Witness ==
    /\ ret.op = "record_rate_limit"
    /\ ret.before = 10
    /\ limiter.requests_per_minute = 10

\* C18: after 10 record_success calls in a row the ceiling is higher than it
\* was before the first of them, unless it was 120; after a
\* record_rate_limit call it is lower than before the call, unless it was 10
C18_Adaptation ==
    /\ Len(lhist) = 10 =>
          \/ limiter.requests_per_minute > lhist[1]
          \/ lhist[1] = 120
    /\ ret.op = "record_rate_limit" =>
          \/ limiter.requests_per_minute < ret.before
          \/ ret.before = 10

\* ten successes in a row that began in the middle of the limiter's own
\* count of ten, below the ceiling's maximum
C18_Witness ==
    /\ Len(lhist) = 10
    /\ lhist[1] < 120
    /\ limiter.consecutive_successes = 5
    /\ ret.op = "limiter_record_success"

---------------------------------------------------------------------------
\* C19: once the wrapped operation has raised an error whose message
\* contains "not found", the wrapper makes no further attempt and the call
\* ends by raising that error
C19_NotFoundNotRetried ==
    whist.notfound =>
        /\ wrapper.pc = "idle"
        /\ ret.op = "guarded_call"
        /\ "not found" \in ret.raised

---------------------------------------------------------------------------
\* C20: when save_invoice has attempted a write to Cosmos DB or to the
\* search index and the write did not succeed, the result's flag of that
\* dependency is false and storage_warnings holds its warning
C20_PartialFailureReported ==
    ret.op = "save_invoice" =>
        /\ (services_available.cosmos /\ ~ret.cosmos_saved) =>
               "Failed to save to CosmosDB" \in ret.storage_warnings
        /\ (services_available.search /\ ~ret.search_indexed) =>
               "Failed to index in Azure Search" \in ret.storage_warnings

---------------------------------------------------------------------------
\* C21: whenever record_failure takes the breaker from CLOSED to OPEN, the
\* last failure_threshold recorded outcomes were all failures
C21_OpensOnConsecutiveFailures ==
    [][(breaker.state = "CLOSED" /\ breaker'.state = "OPEN")
          => bhist'.failures >= failure_threshold]_vars

---------------------------------------------------------------------------
\* C22: from a record_failure made while the breaker is HALF_OPEN until
\* recovery_timeout has elapsed since it, the breaker is OPEN and
\* can_execute() returns false
C22_HalfOpenFailureReopens ==
    (bhist.trip # Never /\ bhist.trip <= recovery_timeout) =>
        /\ breaker.state = "OPEN"
        /\ ~CanExecuteValue(breaker)
        /\ ret.op = "can_execute" => ~ret.value

\* can_execute() has refused a call some time after a failure that followed
\* successes of the same half-open trial
C22_Witness ==
    /\ bhist.trip # Never
    /\ bhist.trip > 0
    /\ bhist.trip <= recovery_timeout
    /\ breaker.half_open_calls > 0
    /\ ret.op = "can_execute"
    /\ ~ret.value

---------------------------------------------------------------------------
\* C23: between the breaker entering HALF_OPEN and leaving it, can_execute()
\* admits at most half_open_max_calls calls, the calls in flight included
C23_TrialBudget == admitted <= half_open_max_calls

---------------------------------------------------------------------------
\* C24: every entry removed by a _set_cache call that stores a new key is of
\* the category of that key
C24_CategoryIsolation ==
    [][\A k \in CachedKeys(cache') \ CachedKeys(cache) :
          \A j \in CachedKeys(cache) \ CachedKeys(cache') : j.cat = k.cat]_vars

---------------------------------------------------------------------------
\* C25: the sweep never stops: whenever cleanup_expired_cache is not running,
\* a timer is armed for its next run
C25_SweepNeverStops == sweep.pc # "stopped"

---------------------------------------------------------------------------
\* C26: a statistics result that carries an error field is never stored in
\* the cache and never returned from the cache by get_statistics
C26_OnlySuccessCached ==
    /\ CacheData(cache, StatisticsKey) \notin {"stats_error", "stats_unavailable"}
    /\ (ret.op = "get_statistics" /\ ret.source = "cache") =>
           ret.data \notin {"stats_error", "stats_unavailable"}

---------------------------------------------------------------------------
\* C27: _generate_invoice_number never returns a number it has returned
\* before, each number having been saved before the next is generated
C27_UniqueNumbers ==
    \A i, j \in DOMAIN issued : i # j => issued[i] # issued[j]

---------------------------------------------------------------------------
\* C28: a get_statistics() or list_invoices() call that starts after the
\* saves made so far have completed returns data fetched after those saves,
\* whatever reads were in flight while they ran
C28_NoStaleRead ==
    (ret.op \in {"get_statistics", "list_invoices"} /\ ret.source = "cache")
        => ret.seen = store

---------------------------------------------------------------------------
\* C29: on the in-memory backend every job that is queued eventually leaves
\* the queued state
C29_NoJobLost ==
    \A j \in JobIds :
        (job_store[j].status = "queued") ~> (job_store[j].status # "queued")

---------------------------------------------------------------------------
\* C30: an update is not sent to a connection that has subscribed, then
\* unsubscribed from the update's type and not subscribed to it again
C30_UnsubscribeTakesEffect ==
    ret.op = "broadcast_update" =>
        \A c \in ret.target_clients :
            ret.update_type \notin subhist[c].unsubscribed

=============================================================================
